---- MODULE Spec2Model ----
(***************************************************************************)
(* Model of lib/BoardConfig/BoardConfig.h: the logical-to-physical LED     *)
(* index mapping XY and the serial frame dump sendFrameData.               *)
(*                                                                         *)
(* The wiring and orientation switches are preprocessor values, fixed per  *)
(* build.  They are state here so that every build can be examined; the    *)
(* values of the header as shipped are the Shipped* definitions.           *)
(***************************************************************************)
EXTENDS Integers, Naturals, Sequences, FiniteSets, TLC

VARIABLES
    PANEL_WIRING_SERPENTINE, \* #define at line 26 (0 or 1 per build)
    PANEL_FLIP_X,            \* #define at line 29
    PANEL_FLIP_Y,            \* #define at line 30
    arg_x, arg_y,            \* integer arguments a caller hands to XY
    index,                   \* value returned by XY
    xy_pc,                   \* position of the XY caller: "call" | "done"
    leds,                    \* CRGB buffer handed to sendFrameData (<<>>: none yet)
    stream,                  \* characters written to Serial so far
    frame_x, frame_y,        \* loop variables of sendFrameData
    frame_pc,                \* "idle" | "outer" | "inner" | "body"
    reads,                   \* buffer indices read by the current call
    calls                    \* number of sendFrameData calls started

cfgVars   == <<PANEL_WIRING_SERPENTINE, PANEL_FLIP_X, PANEL_FLIP_Y>>
xyVars    == <<arg_x, arg_y, index, xy_pc>>
frameVars == <<leds, stream, frame_x, frame_y, frame_pc, reads, calls>>
vars      == <<PANEL_WIRING_SERPENTINE, PANEL_FLIP_X, PANEL_FLIP_Y,
               arg_x, arg_y, index, xy_pc,
               leds, stream, frame_x, frame_y, frame_pc, reads, calls>>

----------------------------------------------------------------------------
(* Program constants *)

MATRIX_WIDTH  == 8
MATRIX_HEIGHT == 8
NUM_LEDS      == MATRIX_WIDTH * MATRIX_HEIGHT

Uint8Max == 255   \* largest value of the uint8_t parameters of XY

ShippedWiringSerpentine == 0
ShippedFlipX            == 0
ShippedFlipY            == 0

(* Bounds of the model *)

MaxArg   == 257   \* largest integer argument tried on XY
MaxSeed  == 1     \* buffer contents tried on sendFrameData: seeds 0..MaxSeed
MaxCalls == 2     \* sendFrameData calls per behaviour

----------------------------------------------------------------------------
(* Integer widths *)

ToUint8(v)  == v % 256
ToUint16(v) == v % 65536

----------------------------------------------------------------------------
(* XY, lines 43-73 *)

ClampX(x) == IF x >= MATRIX_WIDTH THEN MATRIX_WIDTH - 1 ELSE x

ClampY_TooLate(y) == IF y > MATRIX_HEIGHT THEN MATRIX_HEIGHT - 1 ELSE y

ClampY(y) == IF y >= MATRIX_HEIGHT THEN MATRIX_HEIGHT - 1 ELSE y

FlipYPass(flipY, y) == IF flipY # 0 THEN ToUint8((MATRIX_HEIGHT - 1) - y) ELSE y

FlipXPass_OffByOne(flipX, x) ==
    IF flipX # 0 THEN ToUint8(MATRIX_WIDTH - x) ELSE x

FlipXPass(flipX, x) == IF flipX # 0 THEN ToUint8((MATRIX_WIDTH - 1) - x) ELSE x

TopologyPass_EvenReversed(serpentine, x, y) ==
    IF serpentine # 0
    THEN IF y % 2 = 0
         THEN ToUint16((y * MATRIX_WIDTH) + (MATRIX_WIDTH - 1 - x))
         ELSE ToUint16((y * MATRIX_WIDTH) + x)
    ELSE ToUint16((y * MATRIX_WIDTH) + x)

TopologyPass_NeverReversed(serpentine, x, y) ==
    ToUint16((y * MATRIX_WIDTH) + x)

TopologyPass_OddOffByOne(serpentine, x, y) ==
    IF serpentine # 0
    THEN IF y % 2 = 1
         THEN ToUint16((y * MATRIX_WIDTH) + (MATRIX_WIDTH - x))
         ELSE ToUint16((y * MATRIX_WIDTH) + x)
    ELSE ToUint16((y * MATRIX_WIDTH) + x)

TopologyPass(serpentine, x, y) ==
    IF serpentine # 0
    THEN IF y % 2 = 1
         THEN ToUint16((y * MATRIX_WIDTH) + (MATRIX_WIDTH - 1 - x))
         ELSE ToUint16((y * MATRIX_WIDTH) + x)
    ELSE ToUint16((y * MATRIX_WIDTH) + x)

XYBuild_FlipBeforeClamp(serpentine, flipX, flipY, x, y) ==
    LET y1 == FlipYPass(flipY, y)
        x1 == FlipXPass(flipX, x)
        x2 == ClampX(x1)
        y2 == ClampY(y1)
    IN  TopologyPass(serpentine, x2, y2)

XYBuild(serpentine, flipX, flipY, x, y) ==
    LET x1 == ClampX(x)
        y1 == ClampY(y)
        y2 == FlipYPass(flipY, y1)
        x2 == FlipXPass(flipX, x1)
    IN  TopologyPass(serpentine, x2, y2)

XY(x, y) == XYBuild(PANEL_WIRING_SERPENTINE, PANEL_FLIP_X, PANEL_FLIP_Y, x, y)

----------------------------------------------------------------------------
(* sendFrameData, lines 76-86 *)

FramePrefix == <<"F", "R", "A", "M", "E", ":">>

HexDigits == <<"0", "1", "2", "3", "4", "5", "6", "7",
               "8", "9", "A", "B", "C", "D", "E", "F">>

RECURSIVE HexStr(_)
HexStr(n) == IF n < 16 THEN <<HexDigits[n + 1]>>
             ELSE HexStr(n \div 16) \o <<HexDigits[(n % 16) + 1]>>

Fmt02X_NoPad(n) == HexStr(n)

\* printf conversion %02X: upper-case hex, zero-padded to at least 2 digits
Fmt02X(n) == LET s == HexStr(n) IN IF Len(s) < 2 THEN <<"0">> \o s ELSE s

\* sprintf(buf, "%02X%02X%02X,", color.r, color.g, color.b)
FormatPixel(color) ==
    Fmt02X(color.r) \o Fmt02X(color.g) \o Fmt02X(color.b) \o <<",">>

CRGB(r, g, b) == [r |-> r, g |-> g, b |-> b]

\* buffer contents the caller may have drawn; every entry differs
LedsOf(seed) ==
    [i \in 0..(NUM_LEDS - 1) |->
        CRGB((i * 5 + seed * 60) % 256, 255 - 3 * i, (seed * 9 + i \div 4) % 256)]

\* leds[i]: an index outside the buffer reads whatever lies behind it
ReadLed(i) ==
    IF i \in DOMAIN leds THEN {leds[i]}
    ELSE {CRGB(0, 0, 0), CRGB(255, 255, 255)}

----------------------------------------------------------------------------
(* Initial states *)

InitCfg ==
    /\ PANEL_WIRING_SERPENTINE \in {0, 1}
    /\ PANEL_FLIP_X \in {0, 1}
    /\ PANEL_FLIP_Y \in {0, 1}

InitShippedCfg ==
    /\ PANEL_WIRING_SERPENTINE = ShippedWiringSerpentine
    /\ PANEL_FLIP_X = ShippedFlipX
    /\ PANEL_FLIP_Y = ShippedFlipY

InitFrameIdle ==
    /\ stream = <<>>
    /\ frame_x = 0
    /\ frame_y = 0
    /\ frame_pc = "idle"
    /\ reads = <<>>
    /\ calls = 0

InitArgs ==
    /\ arg_x \in 0..MaxArg
    /\ arg_y \in 0..MaxArg
    /\ index = 0
    /\ xy_pc = "call"

Init ==
    /\ InitCfg
    /\ InitArgs
    /\ leds = <<>>
    /\ InitFrameIdle

InitShipped ==
    /\ InitShippedCfg
    /\ InitArgs
    /\ leds = <<>>
    /\ InitFrameIdle

InitFrame ==
    /\ InitCfg
    /\ arg_x = 0 /\ arg_y = 0 /\ index = 0 /\ xy_pc = "done"
    /\ \E seed \in 0..MaxSeed : leds = LedsOf(seed)
    /\ InitFrameIdle

----------------------------------------------------------------------------
(* Actions *)

\* a caller evaluates XY(arg_x, arg_y); the int arguments convert to uint8_t
XYCall ==
    /\ xy_pc = "call"
    /\ index' = XY(ToUint8(arg_x), ToUint8(arg_y))
    /\ xy_pc' = "done"
    /\ UNCHANGED <<arg_x, arg_y>>
    /\ UNCHANGED cfgVars
    /\ UNCHANGED frameVars

\* line 77 and the initialisation of the outer loop
sendFrameData ==
    /\ frame_pc = "idle"
    /\ calls < MaxCalls
    /\ calls' = calls + 1
    /\ stream' = stream \o FramePrefix
    /\ frame_y' = 0
    /\ reads' = <<>>
    /\ frame_pc' = "outer"
    /\ UNCHANGED <<leds, frame_x>>
    /\ UNCHANGED cfgVars
    /\ UNCHANGED xyVars

\* line 78: test of the outer loop, initialisation of the inner loop
OuterTest ==
    /\ frame_pc = "outer"
    /\ IF frame_y < MATRIX_HEIGHT
       THEN /\ frame_x' = 0
            /\ frame_pc' = "inner"
       ELSE /\ frame_pc' = "idle"
            /\ UNCHANGED frame_x
    /\ UNCHANGED <<leds, stream, frame_y, reads, calls>>
    /\ UNCHANGED cfgVars
    /\ UNCHANGED xyVars

InnerTest_OffByOne ==
    /\ frame_pc = "inner"
    /\ IF frame_x <= MATRIX_WIDTH
       THEN /\ frame_pc' = "body"
            /\ UNCHANGED frame_y
       ELSE /\ frame_y' = frame_y + 1
            /\ frame_pc' = "outer"
    /\ UNCHANGED <<leds, stream, frame_x, reads, calls>>
    /\ UNCHANGED cfgVars
    /\ UNCHANGED xyVars

\* line 79: test of the inner loop; on exit the y++ of line 78
InnerTest ==
    /\ frame_pc = "inner"
    /\ IF frame_x < MATRIX_WIDTH
       THEN /\ frame_pc' = "body"
            /\ UNCHANGED frame_y
       ELSE /\ frame_y' = frame_y + 1
            /\ frame_pc' = "outer"
    /\ UNCHANGED <<leds, stream, frame_x, reads, calls>>
    /\ UNCHANGED cfgVars
    /\ UNCHANGED xyVars

\* lines 80-83 and the x++ of line 79
PixelBody ==
    /\ frame_pc = "body"
    /\ LET i == XY(ToUint8(frame_x), ToUint8(frame_y))
       IN  /\ reads' = Append(reads, i)
           /\ \E color \in ReadLed(i) : stream' = stream \o FormatPixel(color)
    /\ frame_x' = frame_x + 1
    /\ frame_pc' = "inner"
    /\ UNCHANGED <<leds, frame_y, calls>>
    /\ UNCHANGED cfgVars
    /\ UNCHANGED xyVars

----------------------------------------------------------------------------
(* Specifications *)

Next == XYCall

NextFrame == sendFrameData \/ OuterTest \/ InnerTest \/ PixelBody

\* XY on every build and every argument pair
Spec == Init /\ [][Next]_vars

\* XY on the build the header ships
SpecShipped == InitShipped /\ [][Next]_vars

\* sendFrameData on every build; the function runs to completion once called
SpecFrame ==
    /\ InitFrame
    /\ [][NextFrame]_vars
    /\ WF_vars(OuterTest \/ InnerTest \/ PixelBody)

----------------------------------------------------------------------------
(* Properties of XY, checked under Spec and SpecShipped *)

Returned == xy_pc = "done"

Grid == (0..(MATRIX_WIDTH - 1)) \X (0..(MATRIX_HEIGHT - 1))

InGrid(x, y) == x < MATRIX_WIDTH /\ y < MATRIX_HEIGHT

EightBit(x, y) == x <= Uint8Max /\ y <= Uint8Max

\* C1: for every build and every pair of 8-bit arguments the returned index
\* lies in 0 .. MATRIX_WIDTH*MATRIX_HEIGHT - 1.
C1_IndexInRange ==
    (Returned /\ EightBit(arg_x, arg_y))
        => index \in 0..(MATRIX_WIDTH * MATRIX_HEIGHT - 1)

C1_Witness ==
    /\ Returned
    /\ arg_x = 255 /\ arg_y = 255
    /\ PANEL_WIRING_SERPENTINE = 1 /\ PANEL_FLIP_X = 1 /\ PANEL_FLIP_Y = 1
    /\ index = 0

\* C2: for each build, XY on the in-range grid is a bijection onto
\* 0 .. MATRIX_WIDTH*MATRIX_HEIGHT - 1: no other in-range position shares the
\* returned index, and the images of the grid are exactly the index range.
C2_Bijection ==
    (Returned /\ InGrid(arg_x, arg_y))
        => /\ \A q \in Grid : XY(q[1], q[2]) = index => q = <<arg_x, arg_y>>
           /\ {XY(q[1], q[2]) : q \in Grid}
                = 0..(MATRIX_WIDTH * MATRIX_HEIGHT - 1)

C2_Witness ==
    /\ Returned
    /\ arg_x = 3 /\ arg_y = 5
    /\ PANEL_WIRING_SERPENTINE = 1 /\ PANEL_FLIP_X = 0 /\ PANEL_FLIP_Y = 1
    /\ index = 19

\* C3: an 8-bit coordinate at or beyond the panel edge is clamped to the
\* last valid coordinate before the flip and topology passes, on every
\* build, and the call still returns a valid index.
C3_ClampHigh ==
    (Returned /\ EightBit(arg_x, arg_y))
        => /\ arg_x >= MATRIX_WIDTH => index = XY(MATRIX_WIDTH - 1, arg_y)
           /\ arg_y >= MATRIX_HEIGHT => index = XY(arg_x, MATRIX_HEIGHT - 1)
           /\ index \in 0..(NUM_LEDS - 1)

C3_Witness ==
    /\ Returned
    /\ arg_x = 8 /\ arg_y = 9
    /\ PANEL_WIRING_SERPENTINE = 0 /\ PANEL_FLIP_X = 1 /\ PANEL_FLIP_Y = 0
    /\ index = 56

\* C4: without flips, for every in-range position, RowMajor gives
\* y*W + x and Serpentine gives y*W + x on even rows and y*W + (W-1-x) on
\* odd rows.
C4_TopologyReference ==
    (Returned /\ InGrid(arg_x, arg_y) /\ PANEL_FLIP_X = 0 /\ PANEL_FLIP_Y = 0)
        => index = IF PANEL_WIRING_SERPENTINE = 1 /\ arg_y % 2 = 1
                   THEN arg_y * MATRIX_WIDTH + (MATRIX_WIDTH - 1 - arg_x)
                   ELSE arg_y * MATRIX_WIDTH + arg_x

C4_Witness ==
    /\ Returned
    /\ arg_x = 0 /\ arg_y = 1
    /\ PANEL_WIRING_SERPENTINE = 1 /\ PANEL_FLIP_X = 0 /\ PANEL_FLIP_Y = 0
    /\ index = 15

\* C5: flips are per-axis reflections applied before the topology pass: with
\* flipY set the result is that of the build without flipY at (x, H-1-y),
\* with flipX set that of the build without flipX at (W-1-x, y), and with
\* both set that of the unflipped build at (W-1-x, H-1-y).
C5_FlipsAreReflections ==
    (Returned /\ InGrid(arg_x, arg_y))
        => /\ PANEL_FLIP_Y = 1 =>
                index = XYBuild(PANEL_WIRING_SERPENTINE, PANEL_FLIP_X, 0,
                                arg_x, MATRIX_HEIGHT - 1 - arg_y)
           /\ PANEL_FLIP_X = 1 =>
                index = XYBuild(PANEL_WIRING_SERPENTINE, 0, PANEL_FLIP_Y,
                                MATRIX_WIDTH - 1 - arg_x, arg_y)
           /\ (PANEL_FLIP_X = 1 /\ PANEL_FLIP_Y = 1) =>
                index = XYBuild(PANEL_WIRING_SERPENTINE, 0, 0,
                                MATRIX_WIDTH - 1 - arg_x,
                                MATRIX_HEIGHT - 1 - arg_y)

C5_Witness ==
    /\ Returned
    /\ arg_x = 0 /\ arg_y = 0
    /\ PANEL_WIRING_SERPENTINE = 0 /\ PANEL_FLIP_X = 0 /\ PANEL_FLIP_Y = 1
    /\ index = 56

\* C6: on the build the header ships, XY is the serpentine mapping the
\* header documents: even rows left to right, odd rows reversed.
C6_ShippedIsSerpentine ==
    (Returned /\ InGrid(arg_x, arg_y))
        => index = IF arg_y % 2 = 1
                   THEN arg_y * MATRIX_WIDTH + (MATRIX_WIDTH - 1 - arg_x)
                   ELSE arg_y * MATRIX_WIDTH + arg_x

\* C8: an integer argument at or beyond the panel edge, up to 65535, gives
\* the index of the last valid coordinate when the other one is in range.
C8_ClampWide ==
    Returned
        => /\ (arg_x >= MATRIX_WIDTH /\ arg_x <= 65535 /\ arg_y < MATRIX_HEIGHT)
                => index = XY(MATRIX_WIDTH - 1, arg_y)
           /\ (arg_y >= MATRIX_HEIGHT /\ arg_y <= 65535 /\ arg_x < MATRIX_WIDTH)
                => index = XY(arg_x, MATRIX_HEIGHT - 1)

Neighbours(p, q) ==
    \/ p[1] = q[1] /\ (p[2] = q[2] + 1 \/ q[2] = p[2] + 1)
    \/ p[2] = q[2] /\ (p[1] = q[1] + 1 \/ q[1] = p[1] + 1)

\* C9: on a Serpentine build, whatever the flips, the in-range position of
\* index i+1 exists and is a grid neighbour of the position of index i; from
\* the last index of a row to the first of the next the column is kept.
C9_SerpentineSnakes ==
    (Returned /\ InGrid(arg_x, arg_y) /\ PANEL_WIRING_SERPENTINE = 1
        /\ index < MATRIX_WIDTH * MATRIX_HEIGHT - 1)
        => LET succ == {q \in Grid : XY(q[1], q[2]) = index + 1}
           IN  /\ succ # {}
               /\ \A q \in succ :
                    /\ Neighbours(<<arg_x, arg_y>>, q)
                    /\ index % MATRIX_WIDTH = MATRIX_WIDTH - 1
                        => q[1] = arg_x

C9_Witness ==
    /\ Returned
    /\ arg_x = 0 /\ arg_y = 0
    /\ PANEL_WIRING_SERPENTINE = 1 /\ PANEL_FLIP_X = 1 /\ PANEL_FLIP_Y = 0
    /\ index = 7
    /\ XY(0, 1) = 8

----------------------------------------------------------------------------
(* Properties of sendFrameData, checked under SpecFrame *)

FrameLen == 6 + 7 * MATRIX_WIDTH * MATRIX_HEIGHT

\* entry k of a frame: six upper-case hex digits RRGGBB and a comma, of the
\* colour stored for the k-th logical position in row-major order
ExpectedEntry(k) ==
    LET c == leds[XY(k % MATRIX_WIDTH, k \div MATRIX_WIDTH)]
    IN  << HexDigits[(c.r \div 16) + 1], HexDigits[(c.r % 16) + 1],
           HexDigits[(c.g \div 16) + 1], HexDigits[(c.g % 16) + 1],
           HexDigits[(c.b \div 16) + 1], HexDigits[(c.b % 16) + 1], "," >>

\* character p (from 1) of a frame
ExpectedChar(p) ==
    IF p <= 6 THEN FramePrefix[p]
    ELSE ExpectedEntry((p - 7) \div 7)[((p - 7) % 7) + 1]

\* C7: every call writes "FRAME:" and then MATRIX_WIDTH*MATRIX_HEIGHT entries
\* in row-major logical order, entry k being leds[XY(k mod W, k div W)] as six
\* upper-case hex digits and a comma, and nothing else: the stream is always
\* a run of whole frames of 6 + 7*W*H characters, the last one in progress
\* while a call is running.
C7_StreamIsFrames ==
    /\ \A p \in 1..Len(stream) :
            stream[p] = ExpectedChar(((p - 1) % FrameLen) + 1)
    /\ frame_pc = "idle" => Len(stream) = calls * FrameLen
    /\ frame_pc # "idle" =>
            Len(stream) = (calls - 1) * FrameLen + 6 + 7 * Len(reads)

C7_Witness ==
    /\ frame_pc = "idle"
    /\ calls = 2
    /\ Len(stream) = 2 * FrameLen
    /\ PANEL_WIRING_SERPENTINE = 1 /\ PANEL_FLIP_X = 0 /\ PANEL_FLIP_Y = 0
    /\ leds = LedsOf(1)
    /\ SubSeq(stream, FrameLen + 1, FrameLen + 13)
         = <<"F", "R", "A", "M", "E", ":", "3", "C", "F", "F", "0", "9", ",">>
    /\ SubSeq(stream, 63, 69) = <<"8", "7", "D", "2", "0", "C", ",">>

\* C10: a call of sendFrameData on a buffer of NUM_LEDS entries terminates,
\* after exactly MATRIX_WIDTH*MATRIX_HEIGHT reads, has read every index of
\* 0 .. NUM_LEDS-1 exactly once and none outside, and no step changes the
\* buffer.
C10_ReadsWholeBufferOnce ==
    /\ [](/\ \A j \in 1..Len(reads) : reads[j] \in 0..(NUM_LEDS - 1)
          /\ \A j, k \in 1..Len(reads) : reads[j] = reads[k] => j = k
          /\ (frame_pc = "idle" /\ calls > 0) =>
                /\ Len(reads) = MATRIX_WIDTH * MATRIX_HEIGHT
                /\ {reads[j] : j \in 1..Len(reads)} = 0..(NUM_LEDS - 1))
    /\ [][leds' = leds]_vars
    /\ (frame_pc # "idle") ~> (frame_pc = "idle")

C10_Witness ==
    /\ frame_pc = "idle"
    /\ calls = 1
    /\ Len(reads) = 64
    /\ PANEL_WIRING_SERPENTINE = 0 /\ PANEL_FLIP_X = 0 /\ PANEL_FLIP_Y = 1
    /\ reads[1] = 56
    /\ reads[64] = 7

====
